---- MODULE Spec2Model ----
(***************************************************************************)
(* A model of nyaggle/experiment/gbdt.py: one call of experiment_gbdt,     *)
(* followed statement by statement, with its helpers _dispatch_gbdt and    *)
(* _save_model.  The collaborators imported from the rest of nyaggle       *)
(* (check_cv, Experiment, cross_validate, plot_importance) are modelled at *)
(* their interface only.                                                   *)
(***************************************************************************)
EXTENDS Integers, Sequences, FiniteSets

\* ------------------------------------------------------------- bounds
\* The longest column list of a data frame handed to the call.
MaxCols == 2
\* The largest fold count a CV splitter reports.
MaxFolds == 2

\* ------------------------------------------------------ python values
\* Python's None where the value is otherwise a name (a string).
None == "None"

\* The id_column argument.
id_column == "id"

\* The model_params argument (an opaque dictionary).
model_params == "model_params"

\* The submission_filename argument (its default).
submission_filename == "submission.csv"

\* ------------------------------------------------------ data frames
\* Column names the frames are built from, and the dtype name of each.
ColumnNames == {"id", "a", "b", "n"}

ColumnDType == [c \in ColumnNames |->
                  CASE c = "id" -> "object"
                    [] c = "a"  -> "category"
                    [] c = "b"  -> "object"
                    [] OTHER    -> "int64"]

\* X_train[c].dtype.name
dtype_name(c) == ColumnDType[c]

\* Column lists: distinct names, at most MaxCols of them.
ColSeqs == UNION {{s \in [1..k -> ColumnNames] :
                     \A i, j \in 1..k : i # j => s[i] # s[j]} : k \in 0..MaxCols}

Range(s) == {s[i] : i \in DOMAIN s}

Reverse(s) == [i \in 1..Len(s) |-> s[Len(s) + 1 - i]]

Front(s) == IF Len(s) = 0 THEN s ELSE SubSeq(s, 1, Len(s) - 1)

\* An absent frame (X_test = None); index "" is an unnamed index.
NoFrame == [present |-> FALSE, index |-> "", columns |-> <<>>]

TrainFrames == {[present |-> TRUE, index |-> ix, columns |-> cs] :
                  ix \in {id_column, ""}, cs \in ColSeqs}

\* The X_test arguments tried with a given X_train: none, the same columns,
\* the same columns in another order, and one column fewer.
TestFramesFor(tr) == {NoFrame} \cup
                     {[present |-> TRUE, index |-> tr.index, columns |-> cs] :
                        cs \in {tr.columns, Reverse(tr.columns), Front(tr.columns)}}

\* DataFrame.set_index(name, inplace=True): the column becomes the index.
set_index(X, name) == [X EXCEPT !.index = name,
                                !.columns = SelectSeq(X.columns, LAMBDA c : c # name)]

\* ------------------------------------------------------ other arguments
GbdtTypes == {"lgbm", "cat", "xgb"}

\* type_of_target as passed, and what sklearn's type_of_target(y) may answer.
TargetArgs == {"auto", "binary", "continuous", "multiclass"}

YTypes == {"binary", "continuous", "multiclass"}

\* The eval argument: None or a caller's function.
Evals == {None, "custom_eval"}

\* An optional list (categorical_feature): none, or the list.
NoList == [none |-> TRUE, list |-> <<>>]

SomeList(l) == [none |-> FALSE, list |-> l]

CategoricalArgs == {NoList, SomeList(<<>>), SomeList(<<"n">>)}

\* An optional dictionary (fit_params): none, or a function from its keys.
FitKeys == {"categorical_feature", "cat_features", "early_stopping_rounds"}

CallerValue == [k \in FitKeys |->
                  CASE k = "categorical_feature" -> <<"caller_lgbm">>
                    [] k = "cat_features"        -> <<"caller_cat">>
                    [] OTHER                     -> <<"100">>]

EmptyDict == [k \in {} |-> <<>>]

NoDict == [none |-> TRUE, d |-> EmptyDict]

SomeDict(f) == [none |-> FALSE, d |-> f]

FitParamArgs == {NoDict} \cup {SomeDict([k \in ks |-> CallerValue[k]]) : ks \in SUBSET FitKeys}

\* d[key] = value on a dictionary.
dict_set(f, key, value) == [k \in (DOMAIN f) \cup {key} |-> IF k = key THEN value ELSE f[k]]

\* ------------------------------------------------------ _dispatch_gbdt
\* more_itertools.first_true with no default: the first item the predicate
\* accepts, or None (here the empty tuple).  The predicate is given as the
\* set of the items it accepts.
NoRow == <<>>

first_true(iterable, pred) ==
    IF \E i \in DOMAIN iterable : iterable[i] \in pred
    THEN iterable[CHOOSE i \in DOMAIN iterable :
                    iterable[i] \in pred /\ \A j \in 1..(i - 1) : iterable[j] \notin pred]
    ELSE NoRow

\* What a call gives back: raised (RuntimeError), or the triple.
DispatchRaised == [raised |-> TRUE, model |-> None, eval |-> None, cat_param |-> None]

\* A faulty variant of the table: the regressor rows name the other
\* backend's categorical parameter.
gbdt_table_crossed == << <<"binary", "lgbm", "LGBMClassifier", "roc_auc_score", "categorical_feature">>,
                         <<"continuous", "lgbm", "LGBMRegressor", "mean_squared_error", "cat_features">>,
                         <<"binary", "cat", "CatBoostClassifier", "roc_auc_score", "cat_features">>,
                         <<"continuous", "cat", "CatBoostRegressor", "mean_squared_error", "categorical_feature">> >>

gbdt_table == << <<"binary", "lgbm", "LGBMClassifier", "roc_auc_score", "categorical_feature">>,
                 <<"continuous", "lgbm", "LGBMRegressor", "mean_squared_error", "categorical_feature">>,
                 <<"binary", "cat", "CatBoostClassifier", "roc_auc_score", "cat_features">>,
                 <<"continuous", "cat", "CatBoostRegressor", "mean_squared_error", "cat_features">> >>

\* A faulty variant: the caller's evaluation function is dropped.
_dispatch_gbdt_default_eval(g_type, t_type, custom_eval) ==
    LET pred == {x \in Range(gbdt_table) : x[1] = t_type /\ x[2] = g_type}
        found == first_true(gbdt_table, pred)
    IN  IF found = NoRow
        THEN DispatchRaised
        ELSE [raised |-> FALSE, model |-> found[3], eval |-> found[4], cat_param |-> found[5]]

\* A faulty variant: a backend match alone is enough when no row matches both.
_dispatch_gbdt_fallback(g_type, t_type, custom_eval) ==
    LET pred == {x \in Range(gbdt_table) : x[1] = t_type /\ x[2] = g_type}
        backend == {x \in Range(gbdt_table) : x[2] = g_type}
        exact == first_true(gbdt_table, pred)
        found == IF exact = NoRow THEN first_true(gbdt_table, backend) ELSE exact
    IN  IF found = NoRow
        THEN DispatchRaised
        ELSE [raised |-> FALSE,
              model |-> found[3],
              eval |-> IF custom_eval # None THEN custom_eval ELSE found[4],
              cat_param |-> found[5]]

_dispatch_gbdt(g_type, t_type, custom_eval) ==
    LET pred == {x \in Range(gbdt_table) : x[1] = t_type /\ x[2] = g_type}
        found == first_true(gbdt_table, pred)
    IN  IF found = NoRow
        THEN DispatchRaised
        ELSE [raised |-> FALSE,
              model |-> found[3],
              eval |-> IF custom_eval # None THEN custom_eval ELSE found[4],
              cat_param |-> found[5]]

\* ------------------------------------------------------ _save_model
\* The classes each estimator class is an instance of.
Bases == [c \in {"LGBMClassifier", "LGBMRegressor", "CatBoostClassifier", "CatBoostRegressor"} |->
            CASE c = "LGBMClassifier"     -> {"LGBMClassifier", "LGBMModel"}
              [] c = "LGBMRegressor"      -> {"LGBMRegressor", "LGBMModel"}
              [] c = "CatBoostClassifier" -> {"CatBoostClassifier", "CatBoost"}
              [] OTHER                    -> {"CatBoostRegressor", "CatBoost"}]

isinstance(model, class) == class \in Bases[model.cls]

\* A faulty variant: the file is written whatever the model's class.
_save_model_unchecked(g_type, model, fold) ==
    [model_dir |-> "models",
     raised |-> FALSE,
     file |-> [name |-> "models/fold", fold |-> fold, content |-> model.cls]]

\* What the call leaves behind: the models directory always, and either the
\* file models/fold<fold> or a raised AssertionError.
_save_model(g_type, model, fold) ==
    LET passes == IF g_type = "cat" THEN isinstance(model, "CatBoost")
                                    ELSE isinstance(model, "LGBMModel")
    IN  [model_dir |-> "models",
         raised |-> ~passes,
         file |-> [name |-> "models/fold", fold |-> fold, content |-> model.cls]]

\* ------------------------------------------------------ experiment_gbdt, its pure parts
\* line 153: the columns whose dtype is object or category.
detect_categorical(X) ==
    SelectSeq(X.columns, LAMBDA c : dtype_name(c) \in {"object", "category"})

\* A faulty variant: one instance, repeated once per fold.
construct_models_shared(model, n) ==
    [i \in 1..n |-> [cls |-> model, params |-> model_params, oid |-> 1]]

\* line 159: one instance per fold, each a new object.
construct_models(model, n) ==
    [i \in 1..n |-> [cls |-> model, params |-> model_params, oid |-> i]]

\* A faulty variant: the caller's own entry is overwritten.
should_inject_always(cat_param_name, fit) == cat_param_name # None

\* line 163: whether the categorical parameter is put into fit_params.
should_inject(cat_param_name, fit) ==
    cat_param_name # None /\ cat_param_name \notin DOMAIN fit

\* lines 161-164: the fit_params handed on.
prepare_fit_params(arg, cat_param_name, cats) ==
    LET fit == IF arg.none THEN EmptyDict ELSE arg.d
    IN  IF should_inject(cat_param_name, fit)
        THEN dict_set(fit, cat_param_name, cats)
        ELSE fit

\* A faulty variant: the submission is written with or without test data.
writes_submission_always(X) == TRUE

\* line 187: whether the submission file is written.
writes_submission(X) == X.present

\* ------------------------------------------------------ state
VARIABLES
    pc,                      \* where the call stands
    exc,                     \* the exception the call ended with, or None
    X_train, X_test,         \* the caller's frames (set_index works in place)
    X_train0, X_test0,       \* the frames as they were when the call began
    n_splits,                \* check_cv(cv, y).get_n_splits()
    categorical_feature_arg, \* the categorical_feature argument
    categorical_feature,     \* the local of that name after line 153
    gbdt_type, type_of_target, eval, \* the arguments of those names
    fit_params_arg,          \* the fit_params argument as it was when the call began
    caller_fit_params,       \* the caller's dictionary as it is now
    fit_params,              \* the local of that name after line 164
    dispatched,              \* what _dispatch_gbdt gave back
    models,                  \* the list built at line 159
    constructed,             \* every model instance the call constructed
    cv_call,                 \* what cross_validate was called with
    result,                  \* what cross_validate returned
    metrics,                 \* names passed to exp.log_metric, in order
    importance,              \* the aggregated importance table, or None
    save_attempts,           \* calls of _save_model so far
    save_failed_at,          \* the fold whose _save_model raised, or 0
    dirs,                    \* directories made under logging_directory
    written,                 \* files written under logging_directory, in order
    expState,                \* the Experiment scope: unopened, open, closed
    exitCount,               \* times the scope was exited
    nlog,                    \* calls of exp.log
    lateWrite,               \* the Experiment was used while not open
    returned                 \* the GBDTResult handed back

args == <<X_train0, X_test0, n_splits, categorical_feature_arg, gbdt_type,
          type_of_target, eval, fit_params_arg>>

frames == <<X_train, X_test>>

scope == <<expState, exitCount>>

training == <<models, constructed, cv_call, result>>

saving == <<save_attempts, save_failed_at, dirs>>

vars == <<pc, exc, frames, args, categorical_feature, caller_fit_params, fit_params,
          dispatched, training, metrics, importance, saving, written, scope, nlog,
          lateWrite, returned>>

NotDispatched == [called |-> FALSE, target_type |-> None, raised |-> FALSE,
                  model |-> None, eval |-> None, cat_param |-> None]

NotCalled == [called |-> FALSE, n_models |-> 0, X_test_present |-> FALSE,
              eval |-> None, fit_params |-> EmptyDict]

NoResult == [present |-> FALSE, oof_prediction |-> None, test_prediction |-> None,
             n_scores |-> 0, n_importance |-> 0]

NotReturned == [present |-> FALSE, oof_prediction |-> None, test_prediction |-> None,
                n_scores |-> 0, models |-> <<>>, importance |-> None]

Init ==
    /\ pc = "start"
    /\ exc = None
    /\ X_train \in TrainFrames
    /\ X_test \in TestFramesFor(X_train)
    /\ X_train0 = X_train
    /\ X_test0 = X_test
    /\ n_splits \in 1..MaxFolds
    /\ categorical_feature_arg \in CategoricalArgs
    /\ categorical_feature = NoList
    /\ gbdt_type \in GbdtTypes
    /\ type_of_target \in TargetArgs
    /\ eval \in Evals
    /\ fit_params_arg \in FitParamArgs
    /\ caller_fit_params = fit_params_arg
    /\ fit_params = NoDict
    /\ dispatched = NotDispatched
    /\ models = <<>>
    /\ constructed = <<>>
    /\ cv_call = NotCalled
    /\ result = NoResult
    /\ metrics = <<>>
    /\ importance = None
    /\ save_attempts = 0
    /\ save_failed_at = 0
    /\ dirs = {}
    /\ written = <<>>
    /\ expState = "unopened"
    /\ exitCount = 0
    /\ nlog = 0
    /\ lateWrite = FALSE
    /\ returned = NotReturned

\* ------------------------------------------------------ the Experiment scope
\* A faulty variant: the scope is closed on the way out by return only.
ExitScopeOnReturnOnly(how) ==
    IF how = "return"
    THEN expState' = "closed" /\ exitCount' = exitCount + 1
    ELSE UNCHANGED scope

\* Leaving the with block of line 144, by return or by an exception.
ExitScope(how) ==
    /\ expState' = "closed"
    /\ exitCount' = exitCount + 1

\* An exception raised before the with block is entered.
RaiseOutside(e) ==
    /\ pc' = "raised"
    /\ exc' = e
    /\ UNCHANGED scope

\* An exception raised inside the with block.
RaiseInScope(e) ==
    /\ pc' = "raised"
    /\ exc' = e
    /\ ExitScope("raise")

\* A call of a method of exp.
ExpUse == lateWrite' = (lateWrite \/ expState # "open")

\* exp.log_numpy(name, array): the array saved as <name>.npy; a None array
\* leaves a file holding nothing.
exp_log_numpy(name, array) == [name |-> name, fold |-> 0, content |-> array]

\* exp.log_dataframe(name, df, 'csv'): the table saved under the name.
exp_log_dataframe(name, df) == [name |-> name, fold |-> 0, content |-> df]

\* plot_importance(importance, path): the plot saved at the path.
plot_importance(table, path) == [name |-> path, fold |-> 0, content |-> table]

\* What cross_validate returns: out-of-fold predictions, test predictions
\* when there is test data, one score per fold and an overall one, one
\* importance table per fold.
cross_validate_result(X, n) ==
    [present |-> TRUE,
     oof_prediction |-> "oof",
     test_prediction |-> IF X.present THEN "test_prediction" ELSE None,
     n_scores |-> n + 1,
     n_importance |-> n]

\* ------------------------------------------------------ experiment_gbdt, step by step
\* lines 132-142: check_cv, the id column made the index, the two asserts.
\* The assert of line 138 runs before either frame is touched; the assert of
\* line 142 runs after both set_index calls.
Entry ==
    /\ pc = "start"
    /\ LET id_in_train == id_column \in Range(X_train.columns)
           mismatch == id_in_train /\ X_test.present /\ X_train.columns # X_test.columns
           X_test1 == IF id_in_train /\ X_test.present /\ ~mismatch
                      THEN set_index(X_test, id_column) ELSE X_test
           X_train1 == IF id_in_train /\ ~mismatch
                       THEN set_index(X_train, id_column) ELSE X_train
       IN  /\ X_train' = X_train1
           /\ X_test' = X_test1
           /\ IF mismatch \/ X_train1.index # id_column
              THEN RaiseOutside("AssertionError")
              ELSE pc' = "entered" /\ UNCHANGED <<exc, scope>>
    /\ UNCHANGED <<args, categorical_feature, caller_fit_params, fit_params, dispatched,
                   training, metrics, importance, saving, written, nlog, lateWrite, returned>>

\* lines 144-150: the scope is entered and four lines are logged.
OpenExperiment ==
    /\ pc = "entered"
    /\ expState' = "open"
    /\ nlog' = nlog + 4
    /\ pc' = "opened"
    /\ UNCHANGED <<exc, frames, args, categorical_feature, caller_fit_params, fit_params,
                   dispatched, training, metrics, importance, saving, written, exitCount,
                   lateWrite, returned>>

\* lines 152-154: the categorical columns, given or detected, and logged.
DetectCategorical ==
    /\ pc = "opened"
    /\ categorical_feature' = IF categorical_feature_arg.none
                              THEN SomeList(detect_categorical(X_train))
                              ELSE categorical_feature_arg
    /\ nlog' = nlog + 1
    /\ ExpUse
    /\ pc' = "detected"
    /\ UNCHANGED <<exc, frames, args, caller_fit_params, fit_params, dispatched, training,
                   metrics, importance, saving, written, scope, returned>>

\* lines 156-158: the target type resolved (sklearn's type_of_target(y) is
\* asked only for "auto"), the table looked up.
Dispatch ==
    /\ pc = "detected"
    /\ \E t \in (IF type_of_target = "auto" THEN YTypes ELSE {type_of_target}) :
       LET r == _dispatch_gbdt(gbdt_type, t, eval)
       IN  /\ dispatched' = [called |-> TRUE, target_type |-> t, raised |-> r.raised,
                             model |-> r.model, eval |-> r.eval, cat_param |-> r.cat_param]
           /\ IF r.raised
              THEN RaiseInScope("RuntimeError")
              ELSE pc' = "dispatched" /\ UNCHANGED <<exc, scope>>
    /\ UNCHANGED <<frames, args, categorical_feature, caller_fit_params, fit_params,
                   training, metrics, importance, saving, written, nlog, lateWrite, returned>>

\* lines 159-164: the models, and the fit parameters.  A dictionary the
\* caller passed is the very object line 164 writes to.
BuildModels ==
    /\ pc = "dispatched"
    /\ models' = construct_models(dispatched.model, n_splits)
    /\ constructed' = constructed \o models'
    /\ fit_params' = SomeDict(prepare_fit_params(fit_params_arg, dispatched.cat_param,
                                                 categorical_feature.list))
    /\ caller_fit_params' = IF fit_params_arg.none THEN caller_fit_params ELSE fit_params'
    /\ pc' = "built"
    /\ UNCHANGED <<exc, frames, args, categorical_feature, dispatched, cv_call, result,
                   metrics, importance, saving, written, scope, nlog, lateWrite, returned>>

\* The estimator classes cross_validate may leave at a place of the list.
SwapClasses == {"LGBMRegressor", "CatBoostRegressor"}

\* The list of models as cross_validate may leave it: it is the caller's own
\* list, fitted in place; the engine may put another estimator at one place.
ModelsAfterFit(ms) ==
    {ms} \cup {[ms EXCEPT ![k].cls = c] : k \in DOMAIN ms, c \in SwapClasses}

\* lines 166-167: the cross-validation engine runs, or fails.
CrossValidate ==
    /\ pc = "built"
    /\ cv_call' = [called |-> TRUE, n_models |-> Len(models), X_test_present |-> X_test.present,
                   eval |-> dispatched.eval, fit_params |-> fit_params.d]
    /\ ExpUse
    /\ \/ /\ RaiseInScope("CrossValidateError")
          /\ UNCHANGED <<models, result>>
       \/ /\ models' \in ModelsAfterFit(models)
          /\ result' = cross_validate_result(X_test, n_splits)
          /\ pc' = "validated"
          /\ UNCHANGED <<exc, scope>>
    /\ UNCHANGED <<frames, args, categorical_feature, caller_fit_params, fit_params,
                   dispatched, constructed, metrics, importance, saving, written, nlog,
                   returned>>

\* lines 169-178: the scores logged as metrics, the importance averaged per
\* feature, the plot drawn (or plot_importance fails).
Aggregate ==
    /\ pc = "validated"
    /\ metrics' = [i \in 1..(n_splits + 1) |->
                     IF i <= n_splits THEN <<"Fold", i>> ELSE <<"Overall", 0>>]
    /\ ExpUse
    /\ importance' = "importance"
    /\ \/ /\ written' = Append(written, plot_importance(importance', "importance.png"))
          /\ pc' = "saving"
          /\ UNCHANGED <<exc, scope>>
       \/ /\ RaiseInScope("PlotError")
          /\ UNCHANGED written
    /\ UNCHANGED <<frames, args, categorical_feature, caller_fit_params, fit_params,
                   dispatched, training, saving, nlog, returned>>

\* lines 180-181: one turn of the loop, _save_model on the next model.
SaveModelStep ==
    /\ pc = "saving"
    /\ save_attempts < Len(models)
    /\ LET fold == save_attempts + 1
           r == _save_model(gbdt_type, models[fold], fold)
       IN  /\ save_attempts' = fold
           /\ dirs' = dirs \cup {r.model_dir}
           /\ IF r.raised
              THEN /\ save_failed_at' = fold
                   /\ RaiseInScope("AssertionError")
                   /\ UNCHANGED written
              ELSE /\ written' = Append(written, r.file)
                   /\ UNCHANGED <<pc, exc, scope, save_failed_at>>
    /\ UNCHANGED <<frames, args, categorical_feature, caller_fit_params, fit_params,
                   dispatched, training, metrics, importance, nlog, lateWrite, returned>>

\* lines 183-185: both predictions handed to exp.log_numpy.
SavePredictions ==
    /\ pc = "saving"
    /\ save_attempts = Len(models)
    /\ written' = written \o
                  << exp_log_numpy("oof_prediction.npy", result.oof_prediction),
                     exp_log_numpy("test_prediction.npy", result.test_prediction) >>
    /\ ExpUse
    /\ pc' = "persisted"
    /\ UNCHANGED <<exc, frames, args, categorical_feature, caller_fit_params, fit_params,
                   dispatched, training, metrics, importance, saving, scope, nlog, returned>>

\* lines 187-195: the submission table when there is test data, the result.
Finish ==
    /\ pc = "persisted"
    /\ IF writes_submission(X_test)
       THEN written' = Append(written, exp_log_dataframe(submission_filename, "submission"))
       ELSE UNCHANGED written
    /\ ExpUse
    /\ returned' = [present |-> TRUE,
                    oof_prediction |-> result.oof_prediction,
                    test_prediction |-> result.test_prediction,
                    n_scores |-> result.n_scores,
                    models |-> models,
                    importance |-> importance]
    /\ ExitScope("return")
    /\ pc' = "returned"
    /\ UNCHANGED <<exc, frames, args, categorical_feature, caller_fit_params, fit_params,
                   dispatched, training, metrics, importance, saving, nlog>>

Next ==
    \/ Entry
    \/ OpenExperiment
    \/ DetectCategorical
    \/ Dispatch
    \/ BuildModels
    \/ CrossValidate
    \/ Aggregate
    \/ SaveModelStep
    \/ SavePredictions
    \/ Finish

Spec == Init /\ [][Next]_vars

\* ------------------------------------------------------ properties
\* The documented dispatch table, written out from the specification.
DocumentedPairs == {<<"binary", "lgbm">>, <<"continuous", "lgbm">>,
                    <<"binary", "cat">>, <<"continuous", "cat">>}

DocumentedTriple(t, g) ==
    CASE <<t, g>> = <<"binary", "lgbm">>     -> <<"LGBMClassifier", "roc_auc_score", "categorical_feature">>
      [] <<t, g>> = <<"continuous", "lgbm">> -> <<"LGBMRegressor", "mean_squared_error", "categorical_feature">>
      [] <<t, g>> = <<"binary", "cat">>      -> <<"CatBoostClassifier", "roc_auc_score", "cat_features">>
      [] OTHER                               -> <<"CatBoostRegressor", "mean_squared_error", "cat_features">>

\* The (target type, backend) pair the dispatcher was called with.
DispatchedPair == <<dispatched.target_type, gbdt_type>>

Ended == pc \in {"returned", "raised"}

\* The files written so far under a name.
FilesNamed(name) == SelectSeq(written, LAMBDA f : f.name = name)

\* The fold numbers of the model files written so far, in order.
FoldsWritten ==
    LET fs == FilesNamed("models/fold") IN [i \in 1..Len(fs) |-> fs[i].fold]

\* C1: called without a custom evaluation function, the dispatcher gives the
\* documented (constructor, metric, categorical parameter) triple for each of
\* the four documented (target type, backend) pairs, and raises the
\* unsupported-configuration error for every other pair.
C1_DispatchGivesDocumentedTriple ==
    (dispatched.called /\ eval = None) =>
        IF DispatchedPair \in DocumentedPairs
        THEN /\ ~dispatched.raised
             /\ <<dispatched.model, dispatched.eval, dispatched.cat_param>>
                    = DocumentedTriple(dispatched.target_type, gbdt_type)
        ELSE /\ dispatched.raised
             /\ pc = "raised"
             /\ exc = "RuntimeError"

C1_Witness ==
    /\ dispatched.called
    /\ eval = None
    /\ DispatchedPair = <<"continuous", "cat">>
    /\ dispatched.model = "CatBoostRegressor"

\* C2: a caller's evaluation function is the one returned for every pair in
\* the table, the constructor and the categorical parameter are those of the
\* call without it, and a pair outside the table still raises.
C2_CustomEvalOverridesOnlyTheMetric ==
    (dispatched.called /\ eval # None) =>
        LET base == _dispatch_gbdt(gbdt_type, dispatched.target_type, None)
        IN  /\ dispatched.raised = (DispatchedPair \notin DocumentedPairs)
            /\ dispatched.raised = base.raised
            /\ ~dispatched.raised =>
                  /\ dispatched.eval = eval
                  /\ dispatched.model = base.model
                  /\ dispatched.cat_param = base.cat_param
                  /\ base.eval # eval

C2_Witness ==
    /\ dispatched.called
    /\ eval = "custom_eval"
    /\ ~dispatched.raised
    /\ dispatched.eval = "custom_eval"
    /\ dispatched.model = "LGBMRegressor"

\* C3: with a (target type, backend) pair outside the table the run ends in
\* the RuntimeError with no model constructed, cross_validate not called, and
\* no metric, plot, model file, prediction file or submission file written.
C3_UnsupportedPairAbortsBeforeTraining ==
    (dispatched.called /\ DispatchedPair \notin DocumentedPairs) =>
        /\ pc = "raised"
        /\ exc = "RuntimeError"
        /\ constructed = <<>>
        /\ models = <<>>
        /\ ~cv_call.called
        /\ ~result.present
        /\ metrics = <<>>
        /\ importance = None
        /\ written = <<>>
        /\ dirs = {}

C3_Witness ==
    /\ dispatched.called
    /\ dispatched.raised
    /\ gbdt_type = "lgbm"
    /\ dispatched.target_type = "multiclass"
    /\ pc = "raised"
    /\ expState = "closed"

\* C4 (as claimed): whenever test data is given and its column set differs
\* from the training data's, the call raises before the Experiment scope is
\* opened and before any training, whether the id column is a column or
\* already the index of X_train.
C4_ColumnMismatchRaisesBeforeScope ==
    (pc # "start" /\ X_test0.present
        /\ Range(X_test0.columns) # Range(X_train0.columns)) =>
        /\ pc = "raised"
        /\ exc = "AssertionError"
        /\ expState = "unopened"
        /\ ~cv_call.called

\* C5: a run without test data that completes writes no submission file,
\* returns no test prediction and leaves a test-prediction file holding
\* nothing, while the out-of-fold prediction is written; a submission file is
\* there exactly when a run with test data has completed.
C5_SubmissionOnlyWithTestData ==
    /\ (pc = "returned" /\ ~X_test0.present) =>
          /\ FilesNamed(submission_filename) = <<>>
          /\ returned.test_prediction = None
          /\ \A i \in DOMAIN written :
                written[i].name = "test_prediction.npy" => written[i].content = None
          /\ \E i \in DOMAIN written :
                written[i].name = "oof_prediction.npy" /\ written[i].content = "oof"
    /\ (pc = "returned" /\ X_test0.present) =>
          /\ Len(FilesNamed(submission_filename)) = 1
          /\ returned.test_prediction # None
    /\ pc # "returned" => FilesNamed(submission_filename) = <<>>

C5_Witness ==
    /\ pc = "returned"
    /\ ~X_test0.present
    /\ Len(FilesNamed("test_prediction.npy")) = 1
    /\ Len(FilesNamed("oof_prediction.npy")) = 1

\* C6: a successful run with n folds has constructed exactly n model
\* instances, distinct objects built from the same model_params, and has
\* written exactly the model files fold1 .. fold<n>, each once; no model file
\* is written before cross_validate has returned.
C6_OneModelAndOneArtifactPerFold ==
    /\ pc = "returned" =>
          /\ Len(constructed) = n_splits
          /\ \A i, j \in DOMAIN constructed :
                i # j => constructed[i].oid # constructed[j].oid
          /\ \A i \in DOMAIN constructed :
                /\ constructed[i].params = model_params
                /\ constructed[i].cls = dispatched.model
          /\ Len(returned.models) = n_splits
          /\ FoldsWritten = [i \in 1..n_splits |-> i]
    /\ FoldsWritten # <<>> => result.present

C6_Witness ==
    /\ pc = "returned"
    /\ n_splits >= 2
    /\ Len(FoldsWritten) = n_splits

\* C7 (as claimed): when the call has ended, by return or by an exception,
\* the caller's X_train and X_test have the columns and index they had before
\* the call, and the caller's fit_params has the keys and values it had.
C7_CallerInputsUnchanged ==
    Ended =>
        /\ X_train = X_train0
        /\ X_test = X_test0
        /\ caller_fit_params = fit_params_arg

\* C8: once entered, the Experiment scope is exited exactly once, at the
\* moment control goes back to the caller, on return and on every exception
\* raised inside it; the Experiment is never used while it is not open.
C8_ScopeExitedExactlyOnce ==
    /\ exitCount <= 1
    /\ expState = "unopened" => exitCount = 0
    /\ (Ended /\ expState # "unopened") => (expState = "closed" /\ exitCount = 1)
    /\ ~Ended => (expState # "closed" /\ exitCount = 0)
    /\ ~lateWrite

C8_Witness ==
    /\ pc = "raised"
    /\ exc = "PlotError"
    /\ expState = "closed"
    /\ exitCount = 1
    /\ metrics # <<>>

\* C9: the fit parameters cross_validate receives are the caller's, with the
\* dispatched categorical parameter added exactly when the caller did not
\* give it; the value added is the explicit categorical list, or else the
\* object/category columns of X_train in column order without the id column;
\* every entry the caller gave arrives unchanged.
C9_CategoricalParamInjectedOnlyIfAbsent ==
    cv_call.called =>
        LET key == IF gbdt_type = "lgbm" THEN "categorical_feature" ELSE "cat_features"
            cats == IF categorical_feature_arg.none
                    THEN SelectSeq(X_train0.columns,
                                   LAMBDA c : c # id_column
                                              /\ ColumnDType[c] \in {"object", "category"})
                    ELSE categorical_feature_arg.list
            given == IF fit_params_arg.none THEN EmptyDict ELSE fit_params_arg.d
            passed == cv_call.fit_params
        IN  /\ DOMAIN passed = (DOMAIN given) \cup {key}
            /\ \A k \in DOMAIN given : passed[k] = given[k]
            /\ key \notin DOMAIN given => passed[key] = cats

C9_Witness ==
    /\ cv_call.called
    /\ gbdt_type = "cat"
    /\ ~fit_params_arg.none
    /\ "cat_features" \in DOMAIN fit_params_arg.d
    /\ ~categorical_feature_arg.none
    /\ cv_call.fit_params["cat_features"] = <<"caller_cat">>

\* C10: _save_model raises, writing no file for that fold, whenever the
\* model's class disagrees with the backend tag; when that happens at fold k
\* of the loop the files of folds 1 .. k-1 stay written, no later fold is
\* saved, and neither prediction file nor the submission file is written.
C10_MismatchStopsSavingWithoutRollback ==
    LET Disagrees(m) ==
            \/ gbdt_type = "cat" /\ m.cls \notin {"CatBoostClassifier", "CatBoostRegressor"}
            \/ gbdt_type # "cat" /\ m.cls \notin {"LGBMClassifier", "LGBMRegressor"}
    IN  /\ \A k \in 1..save_attempts :
              Disagrees(models[k]) =>
                  /\ save_failed_at = k
                  /\ \A i \in DOMAIN FoldsWritten : FoldsWritten[i] # k
        /\ save_failed_at > 0 =>
              /\ pc = "raised"
              /\ exc = "AssertionError"
              /\ save_attempts = save_failed_at
              /\ FoldsWritten = [i \in 1..(save_failed_at - 1) |-> i]
              /\ FilesNamed("oof_prediction.npy") = <<>>
              /\ FilesNamed("test_prediction.npy") = <<>>
              /\ FilesNamed(submission_filename) = <<>>
              /\ ~returned.present

C10_Witness ==
    /\ save_failed_at = 2
    /\ FoldsWritten = <<1>>
    /\ pc = "raised"

====
